---- MODULE Spec2Model ----
(***************************************************************************)
(* A model of tinylogger (src/src/tinylogger.hpp): the Logger struct, its  *)
(* two mutexes, the emission functions logTRACE..logCRITICAL, log,         *)
(* setLogLevel, displayProgressBar, addFlag and releaseFlag, called from   *)
(* several threads.  Every statement that reads or writes shared state, or *)
(* writes to a stream, is one step of the calling thread.                  *)
(***************************************************************************)
EXTENDS Integers, Sequences, FiniteSets, TLC

(***************************************************************************)
(* enum class LogLevel                                                     *)
(***************************************************************************)
OFF == 0
CRITICAL == 1
LERROR == 2
WARNING == 3
INFO == 4
VERBOSE == 5
DEBUG == 6
TRACE == 7
LogLevel == OFF..TRACE

(***************************************************************************)
(* Bounds of the model.                                                    *)
(***************************************************************************)
\* the clock runs from 0 to MaxTime ticks
MaxTime == 2
\* ticks of system_clock per millisecond (duration_cast truncates to ms)
TicksPerMs == 2
\* the largest numberIterations passed to displayProgressBar
MaxTotal == 102

Threads == {"t1", "t2"}
FlagNames == {"x", "y"}
Streams == {"clog", "cout", "cerr"}
NoThread == "none"
\* MAX_LOG_LEVEL_AT_COMPILATION not defined when setLogLevel is compiled
Undefined == -1
NoLevel == -1
NoTime == -1
\* static const size_t progressBarWidth = 50
progressBarWidth == 50

VARIABLES
    maxLogLevelAtCompilation, \* -D MAX_LOG_LEVEL_AT_COMPILATION, or Undefined
    constructorLogLevel,      \* the argument the Logger was constructed with
    logLevel_,
    lastLogTime_,
    elapsedTime_,
    currentIteration_,
    numberIterations_,
    flagTimes_,
    flagMutex_,               \* the thread that owns the mutex, or NoThread
    logMutex_,
    clock,                    \* std::chrono::system_clock::now(), in ticks
    stream,                   \* per stream: the chunks written since the last flush
    exited,                   \* exit(EXIT_FAILURE) has been called
    terminated,               \* the process has ended: no thread runs any more
    pc,                       \* per thread: the statement it is at
    call,                     \* per thread: the public function it called, with its arguments
    gate,                     \* per thread: logLevel_ as read by log's test
    emit,                     \* per thread: the level of the logXXX function it is in
    found,                    \* per thread: flagTimes_.find(flagName) != end()
    currentTimeFlag,          \* per thread: releaseFlag's local
    elapsedTimeFlag,          \* per thread: releaseFlag's local, in ms
    oldProgress,              \* per thread: the counters displayProgressBar read
    lines,                    \* per thread: what the current call has written and flushed
    text,                     \* per thread: the strings the current call has inserted
                              \* into its stream, in order
    previousTotal,            \* the numberIterations of the previous call, 0 if none
    flagsAtLock,              \* flagTimes_ when flagMutex_ was last locked
    lastAddFlag,              \* per flag name: the time the last addFlag stored
    activeFlags               \* the names started by addFlag and not released since

shared == <<maxLogLevelAtCompilation, constructorLogLevel, logLevel_, lastLogTime_, elapsedTime_,
            currentIteration_, numberIterations_, flagTimes_, flagMutex_,
            logMutex_, clock, stream, exited, terminated, previousTotal, flagsAtLock, lastAddFlag,
            activeFlags>>
locals == <<pc, call, gate, emit, found, currentTimeFlag, elapsedTimeFlag, oldProgress,
           lines, text>>
vars == <<shared, locals>>

NoCall == [fn |-> "none", lvl |-> NoLevel, name |-> "", cur |-> 0, tot |-> 0,
           args |-> <<>>]
NoProgress == [cur |-> 0, tot |-> 0, prev |-> 0]

\* the members of the Logger, the mutexes and the process state
TypeOK ==
    /\ maxLogLevelAtCompilation \in LogLevel \cup {Undefined}
    /\ constructorLogLevel \in LogLevel
    /\ logLevel_ \in LogLevel
    /\ lastLogTime_ \in 0..MaxTime
    /\ elapsedTime_ \in 0..MaxTime
    /\ currentIteration_ \in 0..MaxTotal
    /\ numberIterations_ \in 1..MaxTotal
    /\ DOMAIN flagTimes_ \subseteq FlagNames
    /\ \A n \in DOMAIN flagTimes_ : flagTimes_[n] \in 0..MaxTime
    /\ flagMutex_ \in Threads \cup {NoThread}
    /\ logMutex_ \in Threads \cup {NoThread}
    /\ clock \in 0..MaxTime
    /\ exited \in BOOLEAN
    /\ terminated \in BOOLEAN

(***************************************************************************)
(* Pure helpers.                                                           *)
(***************************************************************************)
\* std::chrono::duration_cast<std::chrono::milliseconds>(a - b)
DurationCastMs_Reversed(a, b) ==
    IF b >= a THEN (b - a) \div TicksPerMs ELSE -((a - b) \div TicksPerMs)

DurationCastMs(a, b) ==
    IF a >= b THEN (a - b) \div TicksPerMs ELSE -((b - a) \div TicksPerMs)

\* the stream each logXXX function writes to
StreamOf_InfoToClog(l) ==
    CASE l \in {TRACE, DEBUG, VERBOSE, WARNING, INFO} -> "clog"
      [] OTHER -> "cerr"

StreamOf(l) ==
    CASE l \in {TRACE, DEBUG, VERBOSE, WARNING} -> "clog"
      [] l = INFO -> "cout"
      [] OTHER -> "cerr"

\* the literal each logXXX function writes first
TagOf(l) ==
    CASE l = TRACE -> "[TRACE]    "
      [] l = DEBUG -> "[DEBUG]    "
      [] l = VERBOSE -> "[VERBOSE]  "
      [] l = INFO -> "[INFO]     "
      [] l = WARNING -> "[WARNING]  "
      [] l = LERROR -> "[ERROR]    "
      [] l = CRITICAL -> "[CRITICAL] "

\* An argument of a parameter pack Args&&...: a string (const char*,
\* std::string), an int, or a double with an integral value.
StrArg(s) == [kind |-> "string", str |-> s, num |-> 0]
IntArg(n) == [kind |-> "int", str |-> "", num |-> n]
DoubleArg(n) == [kind |-> "double", str |-> "", num |-> n]

\* what operator<< inserts into an ostream for one argument: the characters
\* of a string, the decimal digits of an int, and for a double with an
\* integral value below 10^6 (default precision 6, no showpoint) the digits
\* of that value
Insert(arg) == IF arg.kind = "string" THEN arg.str ELSE ToString(arg.num)

\* (streamMessage << ... << std::forward<Args>(args)): a left fold over the
\* pack, streamMessage being what has been inserted so far
RECURSIVE FoldInsert_Reversed(_, _)
FoldInsert_Reversed(streamMessage, args) ==
    IF args = <<>>
    THEN streamMessage
    ELSE FoldInsert_Reversed(Insert(Head(args)) \o streamMessage, Tail(args))

RECURSIVE FoldInsert(_, _)
FoldInsert(streamMessage, args) ==
    IF args = <<>>
    THEN streamMessage
    ELSE FoldInsert(streamMessage \o Insert(Head(args)), Tail(args))

\* the character '\b'
Backspace == "\\b"

\* std::to_string(ms / 1000.0): "%f" of a double, six digits after the point
ThreeDigits(n) ==
    IF n < 10 THEN "00" \o ToString(n)
    ELSE IF n < 100 THEN "0" \o ToString(n) ELSE ToString(n)

ToStringSeconds(ms) ==
    ToString(ms \div 1000) \o "." \o ThreeDigits(ms % 1000) \o "000"

\* to_time_t and ctime_r, without the final newline: the date of the second
\* the time point lies in
CTime(now) == "date(" \o ToString(now \div (1000 * TicksPerMs)) \o "s)"

\* elapsedTimeString_ = " +" + std::to_string(..) + "\b\b\b s "
ElapsedTimeString(ms) ==
    " +" \o ToStringSeconds(ms) \o Backspace \o Backspace \o Backspace \o " s "

\* return std::string(currentTimeChar_) + elapsedTimeString_ + stringMessage
FormattedMessage(now, ms, args) ==
    CTime(now) \o ElapsedTimeString(ms) \o FoldInsert("", args)

\* The values (newProgressPercentage - oldProgressPercentage < 1) can have,
\* the percentages being doubles: (double(cur) / (tot - 1)) * 100.0.
\* With a stored numberIterations_ of 1 the old percentage is 0/0 (NaN, every
\* comparison is false) or x/0 (+inf, the difference is -inf).  For finite
\* values the exact difference is compared after multiplying by
\* (tot-1)*(otot-1) > 0; the rounding of the two divisions is far smaller than
\* 1/(tot-1) and decides the comparison only when the exact difference is
\* one point (of 101 iterations, 7 -> 8 gives 0.99999999999999911 and 0 -> 1
\* gives 1): there both values are possible.
ProgressBelowOnePoint(cur, tot, ocur, otot) ==
    IF otot = 1
    THEN {ocur > 0}
    ELSE LET lhs == 100 * cur * (otot - 1) - 100 * ocur * (tot - 1)
             rhs == (tot - 1) * (otot - 1)
         IN IF lhs = rhs THEN BOOLEAN ELSE {lhs < rhs}

\* the values the condition of the early return of displayProgressBar can have
SkipRedraw_NoLastIteration(cur, tot, ocur, otot) ==
    {below /\ tot = otot : below \in ProgressBelowOnePoint(cur, tot, ocur, otot)}

SkipRedraw(cur, tot, ocur, otot) ==
    {below /\ tot = otot /\ ~(cur = tot - 1) :
        below \in ProgressBelowOnePoint(cur, tot, ocur, otot)}

\* newProgressPercentage = (double(cur) / (tot - 1)) * 100.0 is converted to
\* an integer by truncation, in static_cast<int>(newProgressPercentage) and
\* in static_cast<size_t>(progressBarWidth * (newProgressPercentage / 100.0)).
\* The result is the floor of the exact quotient unless the exact value is
\* an integer and the rounded double lies just below it.  In IEEE-754
\* binary64 with round-to-nearest, and numberIterations up to 104, that
\* happens at these points <<currentIteration, numberIterations>> only
\* (29/50*100 = 57.999999999999993, 29/100*100 = 28.999999999999996).
PercentageBelowInteger == {<<29, 51>>, <<29, 101>>, <<57, 101>>, <<58, 101>>}
WidthBelowInteger == {<<29, 51>>, <<58, 101>>}

\* static_cast<int>(newProgressPercentage)
IntPercentage(cur, tot) ==
    (100 * cur) \div (tot - 1) - (IF <<cur, tot>> \in PercentageBelowInteger THEN 1 ELSE 0)

\* size_t filledWidth = static_cast<size_t>(progressBarWidth * (.. / 100.0))
FilledWidth(cur, tot) ==
    (progressBarWidth * cur) \div (tot - 1)
        - (IF <<cur, tot>> \in WidthBelowInteger THEN 1 ELSE 0)

\* std::string(n, c)
RECURSIVE Repeat(_, _)
Repeat(c, n) == IF n = 0 THEN "" ELSE c \o Repeat(c, n - 1)

\* "           [" + std::string(filledWidth, '=')
\*                + std::string(progressBarWidth - filledWidth, ' ') + "] "
ProgressBar(filledWidth) ==
    "           [" \o Repeat("=", filledWidth)
                   \o Repeat(" ", progressBarWidth - filledWidth) \o "] "

(***************************************************************************)
(* Construction: Logger::Logger(logLevel), at a clock reading of 0.        *)
(***************************************************************************)
CompiledCeilings == {Undefined, INFO}

\* the constructor with numberIterations_{ 2 } for numberIterations_{ 1 }
Construct_NoSentinel(logLevel) ==
    /\ maxLogLevelAtCompilation \in CompiledCeilings
    /\ constructorLogLevel = logLevel
    /\ logLevel_ = logLevel
    /\ lastLogTime_ = 0
    /\ elapsedTime_ = 0
    /\ currentIteration_ = 0
    /\ numberIterations_ = 2
    /\ flagTimes_ = [n \in {} |-> NoTime]
    /\ flagMutex_ = NoThread
    /\ logMutex_ = NoThread
    /\ clock = 0
    /\ stream = [s \in Streams |-> <<>>]
    /\ exited = FALSE
    /\ terminated = FALSE
    /\ pc = [t \in Threads |-> "idle"]
    /\ call = [t \in Threads |-> NoCall]
    /\ gate = [t \in Threads |-> NoLevel]
    /\ emit = [t \in Threads |-> NoLevel]
    /\ found = [t \in Threads |-> FALSE]
    /\ currentTimeFlag = [t \in Threads |-> NoTime]
    /\ elapsedTimeFlag = [t \in Threads |-> NoTime]
    /\ oldProgress = [t \in Threads |-> NoProgress]
    /\ lines = [t \in Threads |-> <<>>]
    /\ text = [t \in Threads |-> <<>>]
    /\ previousTotal = 0
    /\ flagsAtLock = [n \in {} |-> NoTime]
    /\ lastAddFlag = [n \in FlagNames |-> NoTime]
    /\ activeFlags = {}

\* Logger(LogLevel logLevel) : logLevel_(logLevel), and the default member
\* initializers
Construct(logLevel) ==
    /\ maxLogLevelAtCompilation \in CompiledCeilings
    /\ constructorLogLevel = logLevel
    /\ logLevel_ = logLevel
    /\ lastLogTime_ = 0
    /\ elapsedTime_ = 0
    /\ currentIteration_ = 0
    /\ numberIterations_ = 1
    /\ flagTimes_ = [n \in {} |-> NoTime]
    /\ flagMutex_ = NoThread
    /\ logMutex_ = NoThread
    /\ clock = 0
    /\ stream = [s \in Streams |-> <<>>]
    /\ exited = FALSE
    /\ terminated = FALSE
    /\ pc = [t \in Threads |-> "idle"]
    /\ call = [t \in Threads |-> NoCall]
    /\ gate = [t \in Threads |-> NoLevel]
    /\ emit = [t \in Threads |-> NoLevel]
    /\ found = [t \in Threads |-> FALSE]
    /\ currentTimeFlag = [t \in Threads |-> NoTime]
    /\ elapsedTimeFlag = [t \in Threads |-> NoTime]
    /\ oldProgress = [t \in Threads |-> NoProgress]
    /\ lines = [t \in Threads |-> <<>>]
    /\ text = [t \in Threads |-> <<>>]
    /\ previousTotal = 0
    /\ flagsAtLock = [n \in {} |-> NoTime]
    /\ lastAddFlag = [n \in FlagNames |-> NoTime]
    /\ activeFlags = {}

Init == \E logLevel \in LogLevel : Construct(logLevel)

\* the clock advances
Tick ==
    /\ ~terminated
    /\ clock < MaxTime
    /\ clock' = clock + 1
    /\ UNCHANGED <<maxLogLevelAtCompilation, constructorLogLevel, logLevel_,
                   lastLogTime_, elapsedTime_,
                   currentIteration_, numberIterations_, flagTimes_, flagMutex_,
                   logMutex_, stream, exited, terminated, previousTotal, flagsAtLock,
                   lastAddFlag, activeFlags, locals>>

(***************************************************************************)
(* Frames.                                                                 *)
(***************************************************************************)
config == <<maxLogLevelAtCompilation, constructorLogLevel>>
timeState == <<lastLogTime_, elapsedTime_>>
progressState == <<currentIteration_, numberIterations_, previousTotal>>
flagState == <<flagTimes_, flagsAtLock, lastAddFlag, activeFlags>>
callLocals == <<gate, found, currentTimeFlag, elapsedTimeFlag, oldProgress>>

Goto(t, l) == pc' = [pc EXCEPT ![t] = l]

\* what one chunk written to a stream is: who wrote it, in which logXXX
\* function (NoLevel: displayProgressBar), and which part of the output
Chunk(t, l, part) == [thr |-> t, lvl |-> l, part |-> part]

(***************************************************************************)
(* log(logLevel, args...)                                                  *)
(***************************************************************************)
CallLog(t, l, args) ==
    /\ ~terminated
    /\ pc[t] = "idle"
    /\ call' = [call EXCEPT ![t] = [NoCall EXCEPT !.fn = "log", !.lvl = l, !.args = args]]
    /\ Goto(t, "log_test")
    /\ UNCHANGED <<shared, emit, callLocals, lines, text>>

\* if (logLevel <= logLevel_)
LogPasses_Strict(l, threshold) == l < threshold

LogPasses(l, threshold) == l <= threshold

\* switch (logLevel): the logXXX function of each case, by its level;
\* NoLevel for default: break
Dispatch_TraceAsDebug(l) ==
    IF l = TRACE THEN DEBUG ELSE IF l \in CRITICAL..TRACE THEN l ELSE NoLevel

Dispatch_DefaultIsTrace(l) == IF l \in CRITICAL..TRACE THEN l ELSE TRACE

Dispatch(l) == IF l \in CRITICAL..TRACE THEN l ELSE NoLevel

\* if (logLevel <= logLevel_) switch (logLevel) { case ...: logXXX(args...) }
\* The read of logLevel_ is not under logMutex_.
LogTest(t) ==
    /\ ~terminated
    /\ pc[t] = "log_test"
    /\ gate' = [gate EXCEPT ![t] = logLevel_]
    /\ IF LogPasses(call[t].lvl, logLevel_) /\ Dispatch(call[t].lvl) # NoLevel
       THEN /\ emit' = [emit EXCEPT ![t] = Dispatch(call[t].lvl)]
            /\ Goto(t, "log_lock")
       ELSE /\ emit' = emit
            /\ Goto(t, "ret")
    /\ UNCHANGED <<shared, call, found, currentTimeFlag, elapsedTimeFlag, oldProgress, lines, text>>

(***************************************************************************)
(* logTRACE .. logCRITICAL: the level is emit[t].                          *)
(***************************************************************************)
\* logTRACE(args...) .. logCRITICAL(args...) called by the program itself:
\* the functions are public, and the macros LOG_TRACE .. LOG_CRITICAL call
\* them when MAX_LOG_LEVEL_AT_COMPILATION is defined by the build
CallLogXXX(t, l, args) ==
    /\ ~terminated
    /\ pc[t] = "idle"
    /\ call' = [call EXCEPT ![t] = [NoCall EXCEPT !.fn = "logXXX", !.lvl = l, !.args = args]]
    /\ emit' = [emit EXCEPT ![t] = l]
    /\ Goto(t, "log_lock")
    /\ UNCHANGED <<shared, callLocals, lines, text>>

\* the arguments the logXXX function thread t is in was called with
ArgsOf(t) ==
    CASE call[t].fn = "setLogLevel" ->
           <<StrArg("Invalid log level: "), IntArg(call[t].lvl),
             StrArg(". Maximum allowed is: "), IntArg(maxLogLevelAtCompilation)>>
      [] call[t].fn = "addFlag" ->
           <<StrArg("Flag '"), StrArg(call[t].name),
             StrArg("' already exists and will be overwritten.")>>
      [] call[t].fn = "releaseFlag" /\ ~found[t] ->
           <<StrArg("Flag '"), StrArg(call[t].name), StrArg("' could not be found in memory.")>>
      [] call[t].fn = "releaseFlag" /\ found[t] ->
           <<StrArg("Flag '"), StrArg(call[t].name), StrArg("' released after "),
             StrArg(ToStringSeconds(elapsedTimeFlag[t]) \o Backspace \o Backspace
                 \o Backspace \o " seconds.")>>
      [] OTHER -> call[t].args

\* std::lock_guard<std::mutex> guard(logMutex_), the mutex being free
LockLog_NoGuard(t) ==
    /\ ~terminated
    /\ pc[t] = "log_lock"
    /\ Goto(t, "log_tag")
    /\ UNCHANGED <<shared, call, emit, callLocals, lines, text>>

LockLog(t) ==
    /\ ~terminated
    /\ pc[t] = "log_lock"
    /\ logMutex_ = NoThread
    /\ logMutex_' = t
    /\ Goto(t, "log_tag")
    /\ UNCHANGED <<config, logLevel_, timeState, progressState, flagState, flagMutex_,
                   clock, stream, exited, terminated, call, emit, callLocals, lines, text>>

\* the same constructor when the calling thread already owns logMutex_:
\* std::mutex::lock is undefined then; the thread blocks for ever ...
RelockBlocks(t) ==
    /\ ~terminated
    /\ pc[t] = "log_lock"
    /\ logMutex_ = t
    /\ Goto(t, "deadlocked")
    /\ UNCHANGED <<shared, call, emit, callLocals, lines, text>>

\* ... or lock throws std::system_error (resource_deadlock_would_occur),
\* which unwinds through the caller, whose guard unlocks the mutex
RelockThrows(t) ==
    /\ ~terminated
    /\ pc[t] = "log_lock"
    /\ logMutex_ = t
    /\ logMutex_' = NoThread
    /\ emit' = [emit EXCEPT ![t] = NoLevel]
    /\ Goto(t, "threw")
    /\ UNCHANGED <<config, logLevel_, timeState, progressState, flagState, flagMutex_,
                   clock, stream, exited, terminated, call, callLocals, lines, text>>

\* std::clog << "[TRACE]    "
WriteTag(t) ==
    /\ ~terminated
    /\ pc[t] = "log_tag"
    /\ LET s == StreamOf(emit[t])
       IN stream' = [stream EXCEPT ![s] = Append(@, Chunk(t, emit[t], "tag"))]
    /\ text' = [text EXCEPT ![t] = Append(@, TagOf(emit[t]))]
    /\ Goto(t, "log_format")
    /\ UNCHANGED <<config, logLevel_, timeState, progressState, flagState, flagMutex_,
                   logMutex_, clock, exited, terminated, call, emit, callLocals, lines>>

\* lastLogTime_ = currentTime_
SaveLogTime_Never(currentTime, lastLogTime) == lastLogTime

SaveLogTime(currentTime, lastLogTime) == currentTime

\* << formatMessage(args...): currentTime_ = now(); elapsedTime_ =
\* duration_cast<ms>(currentTime_ - lastLogTime_); ...
FormatMessage(t) ==
    /\ ~terminated
    /\ pc[t] = "log_format"
    /\ LET currentTime_ == clock
           elapsed == DurationCastMs(currentTime_, lastLogTime_)
           s == StreamOf(emit[t])
       IN /\ elapsedTime_' = elapsed
          /\ lastLogTime_' = SaveLogTime(currentTime_, lastLogTime_)
          /\ stream' = [stream EXCEPT ![s] = Append(@, Chunk(t, emit[t], "message"))]
          /\ text' = [text EXCEPT ![t] =
                        Append(@, FormattedMessage(currentTime_, elapsed, ArgsOf(t)))]
    /\ Goto(t, "log_endl")
    /\ UNCHANGED <<config, logLevel_, progressState, flagState, flagMutex_,
                   logMutex_, clock, exited, terminated, call, emit, callLocals, lines>>

\* what follows the output: exit(EXIT_FAILURE) in logCRITICAL, the end of
\* the function in the others
AfterEndl_Returns(l) == "log_unlock"

AfterEndl(l) == IF l = CRITICAL THEN "log_exit" ELSE "log_unlock"

\* << std::endl: the newline, and the flush
WriteEndl(t) ==
    /\ ~terminated
    /\ pc[t] = "log_endl"
    /\ LET s == StreamOf(emit[t])
           line == Append(stream[s], Chunk(t, emit[t], "endl"))
       IN /\ stream' = [stream EXCEPT ![s] = <<>>]
          /\ lines' = [lines EXCEPT ![t] = Append(@, [stream |-> s, chunks |-> line])]
    /\ text' = [text EXCEPT ![t] = Append(@, "\n")]
    /\ Goto(t, AfterEndl(emit[t]))
    /\ UNCHANGED <<config, logLevel_, timeState, progressState, flagState, flagMutex_,
                   logMutex_, clock, exited, terminated, call, emit, callLocals>>

\* exit(EXIT_FAILURE) in logCRITICAL, with the guard in a scope that ends
\* before the call
Exit_ReleasesMutex(t) ==
    /\ ~terminated
    /\ pc[t] = "log_exit"
    /\ exited' = TRUE
    /\ logMutex_' = NoThread
    /\ Goto(t, "exited")
    /\ UNCHANGED <<config, logLevel_, timeState, progressState, flagState, flagMutex_,
                   clock, stream, terminated, call, emit, callLocals, lines, text>>

\* exit(EXIT_FAILURE) in logCRITICAL: the guard's destructor never runs.
\* The calling thread does not come back from exit; the other threads run
\* on while exit runs the atexit handlers and the destructors of the statics.
Exit(t) ==
    /\ ~terminated
    /\ pc[t] = "log_exit"
    /\ exited' = TRUE
    /\ Goto(t, "exited")
    /\ UNCHANGED <<config, logLevel_, timeState, progressState, flagState, flagMutex_,
                   logMutex_, clock, stream, terminated, call, emit, callLocals, lines,
                   text>>

\* exit has done its work: the process ends, with all its threads
Terminate(t) ==
    /\ ~terminated
    /\ pc[t] = "exited"
    /\ terminated' = TRUE
    /\ UNCHANGED <<config, logLevel_, timeState, progressState, flagState, flagMutex_,
                   logMutex_, clock, stream, exited, locals>>

\* where a logXXX function returns to
AfterLog(t) ==
    CASE call[t].fn = "setLogLevel" -> "set_unlock"
      [] call[t].fn = "addFlag" -> "flag_store"
      [] call[t].fn = "releaseFlag" -> "flag_unlock"
      [] OTHER -> "ret"

\* the guard's destructor at the end of a logXXX function
UnlockLog_KeepsMutex(t) ==
    /\ ~terminated
    /\ pc[t] = "log_unlock"
    /\ emit' = [emit EXCEPT ![t] = NoLevel]
    /\ Goto(t, AfterLog(t))
    /\ UNCHANGED <<shared, call, callLocals, lines, text>>

UnlockLog(t) ==
    /\ ~terminated
    /\ pc[t] = "log_unlock"
    /\ logMutex_' = NoThread
    /\ emit' = [emit EXCEPT ![t] = NoLevel]
    /\ Goto(t, AfterLog(t))
    /\ UNCHANGED <<config, logLevel_, timeState, progressState, flagState, flagMutex_,
                   clock, stream, exited, terminated, call, callLocals, lines, text>>

(***************************************************************************)
(* setLogLevel(logLevel)                                                   *)
(***************************************************************************)
CallSetLogLevel(t, l) ==
    /\ ~terminated
    /\ pc[t] = "idle"
    /\ call' = [call EXCEPT ![t] = [NoCall EXCEPT !.fn = "setLogLevel", !.lvl = l]]
    /\ Goto(t, "set_lock")
    /\ UNCHANGED <<shared, emit, callLocals, lines, text>>

\* std::lock_guard<std::mutex> guard(logMutex_)
SetLock(t) ==
    /\ ~terminated
    /\ pc[t] = "set_lock"
    /\ logMutex_ = NoThread
    /\ logMutex_' = t
    /\ Goto(t, "set_check")
    /\ UNCHANGED <<config, logLevel_, timeState, progressState, flagState, flagMutex_,
                   clock, stream, exited, terminated, call, emit, callLocals, lines, text>>

\* #ifdef MAX_LOG_LEVEL_AT_COMPILATION  if (logLevel > MAX_LOG_LEVEL_AT_COMPILATION)
AboveCeiling(l) ==
    /\ maxLogLevelAtCompilation # Undefined
    /\ l > maxLogLevelAtCompilation

\* { logERROR("Invalid log level: ", ...); return; }, with logMutex_ held
SetReject(t) ==
    /\ ~terminated
    /\ pc[t] = "set_check"
    /\ AboveCeiling(call[t].lvl)
    /\ emit' = [emit EXCEPT ![t] = LERROR]
    /\ Goto(t, "log_lock")
    /\ UNCHANGED <<shared, call, callLocals, lines, text>>

\* logLevel_ = logLevel
SetCommit(t) ==
    /\ ~terminated
    /\ pc[t] = "set_check"
    /\ ~AboveCeiling(call[t].lvl)
    /\ logLevel_' = call[t].lvl
    /\ Goto(t, "set_unlock")
    /\ UNCHANGED <<config, timeState, progressState, flagState, flagMutex_, logMutex_,
                   clock, stream, exited, terminated, call, emit, callLocals, lines, text>>

\* the guard's destructor
SetUnlock(t) ==
    /\ ~terminated
    /\ pc[t] = "set_unlock"
    /\ logMutex_' = NoThread
    /\ Goto(t, "ret")
    /\ UNCHANGED <<config, logLevel_, timeState, progressState, flagState, flagMutex_,
                   clock, stream, exited, terminated, call, emit, callLocals, lines, text>>

(***************************************************************************)
(* displayProgressBar(currentIteration, numberIterations)                  *)
(***************************************************************************)
CallDisplayProgressBar(t, cur, tot) ==
    /\ ~terminated
    /\ pc[t] = "idle"
    /\ call' = [call EXCEPT ![t] =
                  [NoCall EXCEPT !.fn = "displayProgressBar", !.cur = cur, !.tot = tot]]
    /\ Goto(t, "progress_lock")
    /\ UNCHANGED <<shared, emit, callLocals, lines, text>>

\* std::lock_guard<std::mutex> guard(logMutex_)
ProgressLock(t) ==
    /\ ~terminated
    /\ pc[t] = "progress_lock"
    /\ logMutex_ = NoThread
    /\ logMutex_' = t
    /\ Goto(t, "progress_check")
    /\ UNCHANGED <<config, logLevel_, timeState, progressState, flagState, flagMutex_,
                   clock, stream, exited, terminated, call, emit, callLocals, lines, text>>

\* the three conditions hold: return, the counters are not stored
ProgressSkip_Stores(t) ==
    /\ ~terminated
    /\ pc[t] = "progress_check"
    /\ TRUE \in SkipRedraw(call[t].cur, call[t].tot, currentIteration_, numberIterations_)
    /\ oldProgress' = [oldProgress EXCEPT ![t] =
                         [cur |-> currentIteration_, tot |-> numberIterations_,
                          prev |-> previousTotal]]
    /\ previousTotal' = call[t].tot
    /\ currentIteration_' = call[t].cur
    /\ numberIterations_' = call[t].tot
    /\ Goto(t, "progress_unlock")
    /\ UNCHANGED <<config, logLevel_, timeState, flagState, flagMutex_, logMutex_,
                   clock, stream, exited, terminated, call, gate, emit, found, currentTimeFlag,
                   elapsedTimeFlag, lines, text>>

ProgressSkip(t) ==
    /\ ~terminated
    /\ pc[t] = "progress_check"
    /\ TRUE \in SkipRedraw(call[t].cur, call[t].tot, currentIteration_, numberIterations_)
    /\ oldProgress' = [oldProgress EXCEPT ![t] =
                         [cur |-> currentIteration_, tot |-> numberIterations_,
                          prev |-> previousTotal]]
    /\ previousTotal' = call[t].tot
    /\ Goto(t, "progress_unlock")
    /\ UNCHANGED <<config, logLevel_, timeState, currentIteration_, numberIterations_,
                   flagState, flagMutex_, logMutex_, clock, stream, exited, terminated, call, gate,
                   emit, found, currentTimeFlag, elapsedTimeFlag, lines, text>>

\* otherwise currentIteration_.store(..); numberIterations_.store(..)
ProgressStore(t) ==
    /\ ~terminated
    /\ pc[t] = "progress_check"
    /\ FALSE \in SkipRedraw(call[t].cur, call[t].tot, currentIteration_, numberIterations_)
    /\ oldProgress' = [oldProgress EXCEPT ![t] =
                         [cur |-> currentIteration_, tot |-> numberIterations_,
                          prev |-> previousTotal]]
    /\ previousTotal' = call[t].tot
    /\ currentIteration_' = call[t].cur
    /\ numberIterations_' = call[t].tot
    /\ Goto(t, "progress_bar")
    /\ UNCHANGED <<config, logLevel_, timeState, flagState, flagMutex_, logMutex_,
                   clock, stream, exited, terminated, call, gate, emit, found, currentTimeFlag,
                   elapsedTimeFlag, lines, text>>

\* std::cout << progressBar
ProgressWriteBar(t) ==
    /\ ~terminated
    /\ pc[t] = "progress_bar"
    /\ stream' = [stream EXCEPT !["cout"] = Append(@, Chunk(t, NoLevel, "bar"))]
    /\ text' = [text EXCEPT ![t] =
                  Append(@, ProgressBar(FilledWidth(call[t].cur, call[t].tot)))]
    /\ Goto(t, "progress_percent")
    /\ UNCHANGED <<config, logLevel_, timeState, progressState, flagState, flagMutex_,
                   logMutex_, clock, exited, terminated, call, emit, callLocals, lines>>

\* << static_cast<int>(newProgressPercentage) << "%\r"; std::cout.flush()
ProgressWritePercent(t) ==
    /\ ~terminated
    /\ pc[t] = "progress_percent"
    /\ LET line == Append(stream["cout"], Chunk(t, NoLevel, "percent"))
       IN /\ stream' = [stream EXCEPT !["cout"] = <<>>]
          /\ lines' = [lines EXCEPT ![t] = Append(@, [stream |-> "cout", chunks |-> line])]
    /\ text' = [text EXCEPT ![t] =
                  Append(@, ToString(IntPercentage(call[t].cur, call[t].tot)) \o "%\r")]
    /\ Goto(t, "progress_unlock")
    /\ UNCHANGED <<config, logLevel_, timeState, progressState, flagState, flagMutex_,
                   logMutex_, clock, exited, terminated, call, emit, callLocals>>

\* the guard's destructor
ProgressUnlock(t) ==
    /\ ~terminated
    /\ pc[t] = "progress_unlock"
    /\ logMutex_' = NoThread
    /\ Goto(t, "ret")
    /\ UNCHANGED <<config, logLevel_, timeState, progressState, flagState, flagMutex_,
                   clock, stream, exited, terminated, call, emit, callLocals, lines, text>>

(***************************************************************************)
(* addFlag(flagName)                                                       *)
(***************************************************************************)
CallAddFlag(t, n) ==
    /\ ~terminated
    /\ pc[t] = "idle"
    /\ call' = [call EXCEPT ![t] = [NoCall EXCEPT !.fn = "addFlag", !.name = n]]
    /\ Goto(t, "flag_lock")
    /\ UNCHANGED <<shared, emit, callLocals, lines, text>>

\* std::lock_guard<std::mutex> guard(flagMutex_), in addFlag and releaseFlag
FlagLock(t) ==
    /\ ~terminated
    /\ pc[t] = "flag_lock"
    /\ flagMutex_ = NoThread
    /\ flagMutex_' = t
    /\ flagsAtLock' = flagTimes_
    /\ Goto(t, IF call[t].fn = "addFlag" THEN "add_find" ELSE "release_find")
    /\ UNCHANGED <<config, logLevel_, timeState, progressState, flagTimes_, lastAddFlag,
                   activeFlags, logMutex_,
                   clock, stream, exited, terminated, call, emit, callLocals, lines, text>>

\* flagTimes_.find(flagName) != flagTimes_.end(): logWARNING(...), flagMutex_ held
AddFindPresent(t) ==
    /\ ~terminated
    /\ pc[t] = "add_find"
    /\ call[t].name \in DOMAIN flagTimes_
    /\ found' = [found EXCEPT ![t] = TRUE]
    /\ emit' = [emit EXCEPT ![t] = WARNING]
    /\ Goto(t, "log_lock")
    /\ UNCHANGED <<shared, call, gate, currentTimeFlag, elapsedTimeFlag, oldProgress, lines, text>>

AddFindAbsent(t) ==
    /\ ~terminated
    /\ pc[t] = "add_find"
    /\ call[t].name \notin DOMAIN flagTimes_
    /\ Goto(t, "flag_store")
    /\ UNCHANGED <<shared, call, emit, callLocals, lines, text>>

\* flagTimes_[flagName] = std::chrono::system_clock::now()
StoreFlag_KeepsFirst(f, n, now) ==
    [m \in DOMAIN f \cup {n} |-> IF m \in DOMAIN f THEN f[m] ELSE now]

StoreFlag(f, n, now) == [m \in DOMAIN f \cup {n} |-> IF m = n THEN now ELSE f[m]]

AddStore(t) ==
    /\ ~terminated
    /\ pc[t] = "flag_store"
    /\ flagTimes_' = StoreFlag(flagTimes_, call[t].name, clock)
    /\ lastAddFlag' = [lastAddFlag EXCEPT ![call[t].name] = clock]
    /\ activeFlags' = activeFlags \cup {call[t].name}
    /\ Goto(t, "flag_unlock")
    /\ UNCHANGED <<config, logLevel_, timeState, progressState, flagsAtLock, flagMutex_,
                   logMutex_,
                   clock, stream, exited, terminated, call, emit, callLocals, lines, text>>

\* the guard's destructor, in addFlag and releaseFlag
FlagUnlock(t) ==
    /\ ~terminated
    /\ pc[t] = "flag_unlock"
    /\ flagMutex_' = NoThread
    /\ Goto(t, "ret")
    /\ UNCHANGED <<config, logLevel_, timeState, progressState, flagState, logMutex_,
                   clock, stream, exited, terminated, call, emit, callLocals, lines, text>>

(***************************************************************************)
(* releaseFlag(flagName)                                                   *)
(***************************************************************************)
CallReleaseFlag(t, n) ==
    /\ ~terminated
    /\ pc[t] = "idle"
    /\ call' = [call EXCEPT ![t] = [NoCall EXCEPT !.fn = "releaseFlag", !.name = n]]
    /\ Goto(t, "flag_lock")
    /\ UNCHANGED <<shared, emit, callLocals, lines, text>>

\* the logXXX function releaseFlag calls: logERROR if the flag is not found,
\* logINFO if it is
ReleaseLevel_AlwaysInfo(isFound) == INFO

ReleaseLevel(isFound) == IF isFound THEN INFO ELSE LERROR

\* iterator == flagTimes_.end(): logERROR(...), flagMutex_ held
ReleaseMissing(t) ==
    /\ ~terminated
    /\ pc[t] = "release_find"
    /\ call[t].name \notin DOMAIN flagTimes_
    /\ emit' = [emit EXCEPT ![t] = ReleaseLevel(FALSE)]
    /\ Goto(t, "log_lock")
    /\ UNCHANGED <<shared, call, callLocals, lines, text>>

\* what releaseFlag does to the table when the flag is found: nothing
ReleaseEntry(f, n) == f

\* else: currentTimeFlag = now(); elapsedTimeFlag = duration_cast<ms>(
\* currentTimeFlag - iterator->second); logINFO(...), flagMutex_ held
ReleaseFound(t) ==
    /\ ~terminated
    /\ pc[t] = "release_find"
    /\ call[t].name \in DOMAIN flagTimes_
    /\ found' = [found EXCEPT ![t] = TRUE]
    /\ currentTimeFlag' = [currentTimeFlag EXCEPT ![t] = clock]
    /\ elapsedTimeFlag' = [elapsedTimeFlag EXCEPT ![t] =
                             DurationCastMs(clock, flagTimes_[call[t].name])]
    /\ flagTimes_' = ReleaseEntry(flagTimes_, call[t].name)
    /\ activeFlags' = activeFlags \ {call[t].name}
    /\ emit' = [emit EXCEPT ![t] = ReleaseLevel(TRUE)]
    /\ Goto(t, "log_lock")
    /\ UNCHANGED <<config, logLevel_, timeState, progressState, flagsAtLock, lastAddFlag,
                   flagMutex_,
                   logMutex_, clock, stream, exited, terminated, call, gate, oldProgress, lines, text>>

(***************************************************************************)
(* The call is over (it returned, or threw): the thread is free to make    *)
(* its next call.                                                          *)
(***************************************************************************)
Return(t) ==
    /\ ~terminated
    /\ pc[t] \in {"ret", "threw"}
    /\ pc' = [pc EXCEPT ![t] = "idle"]
    /\ call' = [call EXCEPT ![t] = NoCall]
    /\ gate' = [gate EXCEPT ![t] = NoLevel]
    /\ emit' = [emit EXCEPT ![t] = NoLevel]
    /\ found' = [found EXCEPT ![t] = FALSE]
    /\ currentTimeFlag' = [currentTimeFlag EXCEPT ![t] = NoTime]
    /\ elapsedTimeFlag' = [elapsedTimeFlag EXCEPT ![t] = NoTime]
    /\ oldProgress' = [oldProgress EXCEPT ![t] = NoProgress]
    /\ lines' = [lines EXCEPT ![t] = <<>>]
    /\ text' = [text EXCEPT ![t] = <<>>]
    /\ UNCHANGED shared

(***************************************************************************)
(* The arguments the calls are made with.                                  *)
(***************************************************************************)
\* numberIterations > 1, and 0 <= currentIteration <= numberIterations - 1
Totals == {2, 3, 100, MaxTotal - 1, MaxTotal}

Emission(t) ==
    \/ LockLog(t)
    \/ WriteTag(t)
    \/ FormatMessage(t)
    \/ WriteEndl(t)
    \/ UnlockLog(t)

\* the arguments of the call in tests/test_tinylogger.cpp
TestArgs == <<StrArg("This is a test log message. "), IntArg(1), DoubleArg(3), StrArg("yes"),
              StrArg(" I am")>>

LogCalls(t) ==
    \/ \E l \in LogLevel : CallLog(t, l, TestArgs)
    \/ LogTest(t)
    \/ Exit(t)
    \/ Terminate(t)

SetLogLevelCalls(t) ==
    \/ \E l \in LogLevel : CallSetLogLevel(t, l)
    \/ SetLock(t)
    \/ SetReject(t)
    \/ RelockBlocks(t)
    \/ RelockThrows(t)
    \/ SetCommit(t)
    \/ SetUnlock(t)

ProgressSteps(t) ==
    \/ ProgressLock(t)
    \/ ProgressSkip(t)
    \/ ProgressStore(t)
    \/ ProgressWriteBar(t)
    \/ ProgressWritePercent(t)
    \/ ProgressUnlock(t)

FlagCalls(t) ==
    \/ \E n \in FlagNames : CallAddFlag(t, n)
    \/ \E n \in FlagNames : CallReleaseFlag(t, n)
    \/ FlagLock(t)
    \/ AddFindPresent(t)
    \/ AddFindAbsent(t)
    \/ AddStore(t)
    \/ ReleaseMissing(t)
    \/ ReleaseFound(t)
    \/ FlagUnlock(t)

(***************************************************************************)
(* Specifications.  Each one lets the threads call a part of the Logger,   *)
(* so that each part is explored with all the arguments it distinguishes.  *)
(***************************************************************************)
\* log and setLogLevel, with every level, from every thread
NextLog ==
    \E t \in Threads :
       \/ Emission(t)
       \/ LogCalls(t)
       \/ SetLogLevelCalls(t)
       \/ Return(t)

SpecLog == Init /\ [][NextLog]_vars

\* addFlag and releaseFlag, from every thread
NextFlags ==
    \/ Tick
    \/ \E t \in Threads :
         \/ Emission(t)
         \/ FlagCalls(t)
         \/ Return(t)

InitFlags ==
    /\ Init
    /\ maxLogLevelAtCompilation = Undefined
    /\ logLevel_ \in {OFF, TRACE}

SpecFlags == InitFlags /\ [][NextFlags]_vars

\* displayProgressBar, with every currentIteration below numberIterations,
\* called in a loop by one thread
LoopThreads == {"t1"}

NextProgress ==
    \E t \in LoopThreads :
       \/ \E tot \in Totals : \E cur \in 0..(tot - 1) :
              CallDisplayProgressBar(t, cur, tot)
       \/ ProgressSteps(t)
       \/ Return(t)

InitProgress ==
    /\ Init
    /\ maxLogLevelAtCompilation = Undefined
    /\ logLevel_ = TRACE

SpecProgress == InitProgress /\ [][NextProgress]_vars

\* log and the functions logTRACE .. logCRITICAL, with every level, from
\* every thread, on a Logger constructed with any level
EntryLevels == CRITICAL..TRACE

NextEntry ==
    \E t \in Threads :
       \/ Emission(t)
       \/ LogCalls(t)
       \/ \E l \in EntryLevels : CallLogXXX(t, l, TestArgs)
       \/ Return(t)

InitEntry ==
    /\ Init
    /\ maxLogLevelAtCompilation = Undefined

SpecEntry == InitEntry /\ [][NextEntry]_vars

\* log and the functions logXXX with several parameter packs, while the
\* clock advances
FormatLevels == {OFF, INFO, TRACE}
FormatEntryLevels == {WARNING}
ArgLists == {<<>>,
             <<StrArg("a"), StrArg("b")>>,
             <<StrArg("b"), StrArg("a")>>,
             <<StrArg("n = "), IntArg(12), DoubleArg(3)>>}

NextFormat ==
    \/ Tick
    \/ \E t \in Threads :
         \/ Emission(t)
         \/ \E l \in FormatLevels : \E args \in ArgLists : CallLog(t, l, args)
         \/ LogTest(t)
         \/ \E l \in FormatEntryLevels : \E args \in ArgLists : CallLogXXX(t, l, args)
         \/ Return(t)

InitFormat ==
    /\ Init
    /\ maxLogLevelAtCompilation = Undefined
    /\ logLevel_ \in {INFO, TRACE}

SpecFormat == InitFormat /\ [][NextFormat]_vars

\* every function of the Logger, from every thread, on the global instance
\* (inline Logger logger(LogLevel::TRACE)), each with a few arguments
MixedLogLevels == {CRITICAL, INFO, TRACE}
MixedEntryLevels == {WARNING}
MixedSetLevels == {OFF, TRACE}
MixedTotals == {2}
MixedFlagNames == {"x"}

Next ==
    \E t \in Threads :
       \/ Emission(t)
       \/ \E l \in MixedLogLevels : CallLog(t, l, TestArgs)
       \/ \E l \in MixedEntryLevels : CallLogXXX(t, l, TestArgs)
       \/ LogTest(t)
       \/ Exit(t)
       \/ Terminate(t)
       \/ \E l \in MixedSetLevels : CallSetLogLevel(t, l)
       \/ SetLock(t)
       \/ SetReject(t)
       \/ RelockBlocks(t)
       \/ RelockThrows(t)
       \/ SetCommit(t)
       \/ SetUnlock(t)
       \/ \E tot \in MixedTotals : \E cur \in 0..(tot - 1) :
              CallDisplayProgressBar(t, cur, tot)
       \/ ProgressSteps(t)
       \/ \E n \in MixedFlagNames : CallAddFlag(t, n)
       \/ \E n \in MixedFlagNames : CallReleaseFlag(t, n)
       \/ FlagLock(t)
       \/ AddFindPresent(t)
       \/ AddFindAbsent(t)
       \/ AddStore(t)
       \/ ReleaseMissing(t)
       \/ ReleaseFound(t)
       \/ FlagUnlock(t)
       \/ Return(t)

InitGlobal ==
    /\ Init
    /\ logLevel_ = TRACE

Spec == InitGlobal /\ [][Next]_vars

(***************************************************************************)
(* The properties.                                                         *)
(***************************************************************************)
\* one whole line of logXXX at level l, written by thread t
WholeLine(t, l) ==
    [stream |-> StreamOf(l),
     chunks |-> <<Chunk(t, l, "tag"), Chunk(t, l, "message"), Chunk(t, l, "endl")>>]

\* one whole progress line, written by thread t
WholeBar(t) ==
    [stream |-> "cout",
     chunks |-> <<Chunk(t, NoLevel, "bar"), Chunk(t, NoLevel, "percent")>>]

\* thread t has nothing unflushed in any stream
NothingPending(t) ==
    \A s \in Streams : \A i \in 1..Len(stream[s]) : stream[s][i].thr # t

\* the call of thread t to log is over: it returned, or it ended the process
LogCallOver(t) ==
    /\ call[t].fn = "log"
    /\ pc[t] \in {"ret", "exited"}

\* C1: a call log(S, ...), S in CRITICAL..TRACE, whose test read the
\* threshold T has, when it is over, written exactly one line (the whole line
\* of level S) if S <= T, and nothing if S > T.  T ranges over OFF..TRACE; with
\* T = TRACE, the level of the global logger, every S is written.
C1_LogWritesIffWithinThreshold ==
    \A t \in Threads :
        (LogCallOver(t) /\ call[t].lvl \in CRITICAL..TRACE) =>
            /\ gate[t] \in LogLevel
            /\ IF call[t].lvl <= gate[t]
               THEN lines[t] = <<WholeLine(t, call[t].lvl)>>
               ELSE lines[t] = <<>> /\ NothingPending(t)

C1_Witness ==
    \E t, u \in Threads :
        /\ LogCallOver(t) /\ call[t].lvl = WARNING /\ gate[t] = WARNING
        /\ lines[t] = <<WholeLine(t, WARNING)>>
        /\ LogCallOver(u) /\ call[u].lvl = INFO /\ gate[u] = WARNING
        /\ lines[u] = <<>>

\* C2: every chunk a thread has written to a stream and not yet flushed was
\* written by the thread that holds logMutex_, a thread between its first
\* write and its flush holds logMutex_, and everything a call has flushed is
\* whole lines of that call alone: no two calls' output interleaves.
C2_OutputIsWrittenUnderLogMutex ==
    /\ \A s \in Streams : \A i \in 1..Len(stream[s]) : stream[s][i].thr = logMutex_
    /\ \A t \in Threads :
         /\ pc[t] \in {"log_tag", "log_format", "log_endl", "log_exit",
                       "progress_check", "progress_bar", "progress_percent"}
               => logMutex_ = t
         /\ \A i \in 1..Len(lines[t]) :
               \/ lines[t][i] = WholeBar(t)
               \/ \E l \in CRITICAL..TRACE : lines[t][i] = WholeLine(t, l)

C2_Witness ==
    \E t, u \in Threads :
        /\ pc[t] = "log_endl" /\ call[t].fn = "releaseFlag"
        /\ Len(stream["cout"]) = 2
        /\ pc[u] = "progress_lock"

\* C3 as stated: a call log(CRITICAL, ...) never returns to its caller,
\* whatever the threshold is.
C3_LogCriticalNeverReturns ==
    \A t \in Threads :
        ~(call[t].fn = "log" /\ call[t].lvl = CRITICAL /\ pc[t] = "ret")

\* C3, amended: a call log(CRITICAL, ...) whose test read a threshold other
\* than OFF never returns: it ends the process, with the whole CRITICAL line
\* written to the error stream and flushed before; only a call whose test
\* read OFF returns, and it has written nothing.  The process ends in no
\* other way.
C3_LogCriticalEndsProcessUnlessOff ==
    /\ \A t \in Threads :
         (call[t].fn = "log" /\ call[t].lvl = CRITICAL) =>
            /\ pc[t] = "ret" => (gate[t] = OFF /\ lines[t] = <<>>)
            /\ gate[t] \in CRITICAL..TRACE =>
                  pc[t] \in {"log_lock", "log_tag", "log_format", "log_endl",
                             "log_exit", "exited"}
            /\ pc[t] = "exited" =>
                  /\ exited
                  /\ lines[t] = <<WholeLine(t, CRITICAL)>>
                  /\ stream["cerr"] = <<>>
    /\ exited => \E t \in Threads : pc[t] = "exited" /\ emit[t] = CRITICAL

C3_Witness ==
    \E t \in Threads :
        /\ call[t].fn = "log" /\ call[t].lvl = CRITICAL
        /\ gate[t] = CRITICAL
        /\ pc[t] = "exited" /\ exited

\* C4: a call setLogLevel(l) with l above the compiled ceiling comes to its
\* end by returning, having written exactly one line, at the error level
\* (the rejecting branch does not assign logLevel_).
C4_RejectedSetLogLevelWritesOneError ==
    \A t \in Threads :
        (/\ call[t].fn = "setLogLevel"
         /\ AboveCeiling(call[t].lvl)
         /\ pc[t] \in {"ret", "threw", "deadlocked"}) =>
            /\ pc[t] = "ret"
            /\ lines[t] = <<WholeLine(t, LERROR)>>

\* C5: no thread waits for ever for a mutex: none waits for logMutex_ or
\* flagMutex_ while it owns that mutex itself, and none is blocked for good.
C5_NoThreadWaitsForItsOwnMutex ==
    \A t \in Threads :
        /\ pc[t] # "deadlocked"
        /\ ~(pc[t] \in {"log_lock", "set_lock", "progress_lock"} /\ logMutex_ = t)
        /\ ~(pc[t] = "flag_lock" /\ flagMutex_ = t)

\* C6: a call releaseFlag(name) that did not find name writes exactly one
\* line, at the error level (and so none at the info level), leaves
\* flagTimes_ as it was when the call locked flagMutex_, and returns (it
\* neither throws nor blocks on a mutex it owns).
C6_ReleaseOfMissingFlag ==
    \A t \in Threads :
        (/\ call[t].fn = "releaseFlag"
         /\ ~found[t]
         /\ pc[t] \notin {"flag_lock", "release_find"}) =>
            /\ pc[t] \notin {"threw", "deadlocked"}
            /\ flagMutex_ = t =>
                  /\ flagTimes_ = flagsAtLock
                  /\ call[t].name \notin DOMAIN flagTimes_
            /\ pc[t] \in {"flag_unlock", "ret"} => lines[t] = <<WholeLine(t, LERROR)>>

C6_Witness ==
    \E t \in Threads :
        /\ call[t].fn = "releaseFlag" /\ ~found[t] /\ pc[t] = "ret"
        /\ lines[t] = <<WholeLine(t, LERROR)>>
        /\ logLevel_ = OFF
        /\ DOMAIN flagTimes_ = FlagNames \ {call[t].name}

\* C7: when addFlag(name) has stored its time (at the end of the call, with
\* flagMutex_ still held), flagTimes_[name] is the time this call read,
\* whether or not name was in the table, and the other entries are as they
\* were; the call has written exactly one line, at the warning level, if
\* name was in the table when the call locked flagMutex_, and nothing if it
\* was not.  The elapsed time of a releaseFlag(name) that found name is
\* counted from the time stored by the last addFlag(name).
C7_AddFlagOverwritesAndWarnsOnce ==
    \A t \in Threads :
        /\ (call[t].fn = "addFlag" /\ pc[t] = "flag_unlock") =>
              /\ call[t].name \in DOMAIN flagTimes_
              /\ flagTimes_[call[t].name] = lastAddFlag[call[t].name]
              /\ flagTimes_[call[t].name] >= 0
              /\ found[t] = (call[t].name \in DOMAIN flagsAtLock)
              /\ \A m \in DOMAIN flagsAtLock \ {call[t].name} :
                    flagTimes_[m] = flagsAtLock[m]
              /\ DOMAIN flagTimes_ = DOMAIN flagsAtLock \cup {call[t].name}
        /\ (call[t].fn = "addFlag" /\ pc[t] \in {"flag_unlock", "ret"}) =>
              lines[t] = IF found[t] THEN <<WholeLine(t, WARNING)>> ELSE <<>>
        /\ (call[t].fn = "releaseFlag" /\ found[t] /\ flagMutex_ = t) =>
              elapsedTimeFlag[t] =
                 (currentTimeFlag[t] - lastAddFlag[call[t].name]) \div TicksPerMs

C7_Witness ==
    \E t \in Threads :
        /\ call[t].fn = "addFlag" /\ pc[t] = "flag_unlock" /\ found[t]
        /\ lines[t] = <<WholeLine(t, WARNING)>>
        /\ flagTimes_[call[t].name] > flagsAtLock[call[t].name]

\* C8: a call releaseFlag(name) that found name writes exactly one line, at
\* the info level (and so none at the error level), and returns; the
\* elapsed time it reports is the time it read minus the time stored by the
\* last addFlag(name), in whole milliseconds, and is >= 0 (the clock of the
\* model never goes back).
C8_ReleaseReportsTimeSinceLastAdd ==
    \A t \in Threads :
        (call[t].fn = "releaseFlag" /\ found[t]) =>
            /\ pc[t] \notin {"threw", "deadlocked"}
            /\ elapsedTimeFlag[t] >= 0
            /\ flagMutex_ = t =>
                  /\ lastAddFlag[call[t].name] # NoTime
                  /\ currentTimeFlag[t] >= lastAddFlag[call[t].name]
                  /\ elapsedTimeFlag[t] * TicksPerMs <=
                        currentTimeFlag[t] - lastAddFlag[call[t].name]
                  /\ (elapsedTimeFlag[t] + 1) * TicksPerMs >
                        currentTimeFlag[t] - lastAddFlag[call[t].name]
            /\ pc[t] \in {"flag_unlock", "ret"} => lines[t] = <<WholeLine(t, INFO)>>

C8_Witness ==
    \E t, u \in Threads :
        /\ t # u
        /\ call[t].fn = "releaseFlag" /\ found[t] /\ pc[t] = "flag_unlock"
        /\ elapsedTimeFlag[t] = 1
        /\ lines[t] = <<WholeLine(t, INFO)>>
        /\ call[u].fn = "addFlag" /\ call[u].name = call[t].name /\ pc[u] = "flag_lock"

\* C9: the flags table holds exactly the names started by addFlag and not
\* released since.
C9_TableHoldsTheActiveFlags ==
    DOMAIN flagTimes_ = activeFlags

\* thread t is past the test of displayProgressBar
ProgressDecided(t) ==
    /\ call[t].fn = "displayProgressBar"
    /\ pc[t] \in {"progress_bar", "progress_percent", "progress_unlock", "ret"}

\* the call of thread t redraws the bar
Redraws(t) ==
    \/ pc[t] \in {"progress_bar", "progress_percent"}
    \/ lines[t] # <<>>

\* 100*cur/(tot-1) - 100*ocur/(otot-1), times (tot-1)*(otot-1)
ScaledAdvance(cur, tot, ocur, otot) ==
    100 * cur * (otot - 1) - 100 * ocur * (tot - 1)

\* the integer part of the percentage 100*cur/(tot-1)
FloorPercent(cur, tot) == (100 * cur) \div (tot - 1)

\* C10: a call displayProgressBar(cur, tot), tot > 1, made when the last
\* redraw was of (ocur, otot), redraws only if the percentage 100*cur/(tot-1)
\* is at least one point above 100*ocur/(otot-1), or tot differs from the tot
\* of the previous call, or cur = tot - 1; with tot unchanged it redraws
\* only if the integer percentage differs from that of the last redraw or
\* cur = tot - 1.  It always redraws if cur = tot - 1, if tot differs from
\* the tot of the previous call (or there was none), and if the percentage is
\* more than one point above that of the last redraw.
C10_RedrawPolicy ==
    \A t \in Threads :
        ProgressDecided(t) =>
            LET cur == call[t].cur
                tot == call[t].tot
                ocur == oldProgress[t].cur
                otot == oldProgress[t].tot
                changed == tot # oldProgress[t].prev
                last == cur = tot - 1
            IN /\ tot > 1
               /\ Redraws(t) =>
                     \/ otot > 1 /\ ScaledAdvance(cur, tot, ocur, otot) >=
                                       (tot - 1) * (otot - 1)
                     \/ changed
                     \/ last
               /\ (Redraws(t) /\ ~changed) =>
                     \/ FloorPercent(cur, tot) # FloorPercent(ocur, otot)
                     \/ last
               /\ last => Redraws(t)
               /\ changed => Redraws(t)
               /\ (otot > 1 /\ ScaledAdvance(cur, tot, ocur, otot) >
                                   (tot - 1) * (otot - 1)) => Redraws(t)
               /\ ~Redraws(t) => (currentIteration_ = ocur /\ numberIterations_ = otot)

C10_Witness ==
    \E t \in Threads :
        /\ ProgressDecided(t) /\ pc[t] = "ret"
        /\ ~Redraws(t)
        /\ call[t].tot = MaxTotal
        /\ call[t].cur = oldProgress[t].cur + 1

\* the call of thread t to one of logTRACE .. logCRITICAL is over: it
\* returned, or it ended the process
EntryCallOver(t) ==
    /\ call[t].fn = "logXXX"
    /\ pc[t] \in {"ret", "exited"}

\* C11, as stated: a call of the function logXXX of severity S behaves as
\* log(S, ...) does on the same Logger: when it is over it has written the
\* whole line of S if S is at or below the threshold, and nothing if S is
\* above it.  (The threshold of the Logger never changes here.)
C11_EntryPointBehavesLikeLog ==
    \A t \in Threads :
        EntryCallOver(t) =>
            IF call[t].lvl <= logLevel_
            THEN lines[t] = <<WholeLine(t, call[t].lvl)>>
            ELSE lines[t] = <<>> /\ text[t] = <<>>

\* C11, amended: a call of the function logXXX of severity S writes, whatever
\* the threshold is, exactly one line, the whole line of S; and it writes the
\* same characters to the same stream as a call log(S, ...) with the same
\* arguments that passed its test.
C11_EntryPointWritesTheLineOfLog ==
    \A t \in Threads :
        EntryCallOver(t) =>
            /\ lines[t] = <<WholeLine(t, call[t].lvl)>>
            /\ Len(text[t]) = 3
            /\ \A u \in Threads :
                  (/\ LogCallOver(u)
                   /\ call[u].lvl = call[t].lvl
                   /\ call[u].args = call[t].args
                   /\ call[u].lvl <= gate[u]) =>
                      /\ text[u] = text[t]
                      /\ lines[u] = <<WholeLine(u, call[t].lvl)>>

C11_Witness ==
    \E t, u \in Threads :
        /\ EntryCallOver(t) /\ call[t].lvl = TRACE
        /\ LogCallOver(u) /\ call[u].lvl = TRACE /\ gate[u] = TRACE
        /\ text[u] = text[t]
        /\ Len(text[t]) = 3

\* the stream and the name the specification gives each severity
RoutedStream(l) ==
    CASE l = TRACE -> "clog"
      [] l = DEBUG -> "clog"
      [] l = VERBOSE -> "clog"
      [] l = WARNING -> "clog"
      [] l = INFO -> "cout"
      [] l = LERROR -> "cerr"
      [] l = CRITICAL -> "cerr"

SeverityName(l) ==
    CASE l = TRACE -> "TRACE"
      [] l = DEBUG -> "DEBUG"
      [] l = VERBOSE -> "VERBOSE"
      [] l = WARNING -> "WARNING"
      [] l = INFO -> "INFO"
      [] l = LERROR -> "ERROR"
      [] l = CRITICAL -> "CRITICAL"

\* the tag of a severity: its name between brackets, padded with spaces
IsTagOf(tag, l) ==
    \E pad \in {" ", "  ", "   ", "    ", "     "} :
        tag = "[" \o SeverityName(l) \o "]" \o pad

\* C12: a thread that is writing a message of severity S writes it to the
\* stream of S and to no other (TRACE, DEBUG, VERBOSE, WARNING to clog, INFO
\* to cout, ERROR and CRITICAL to cerr), beginning with the tag of S; and when
\* the thread is about to release logMutex_ (or to end the process), which it
\* still holds, the line is whole, ends with a newline, and has been flushed:
\* nothing of it is pending in any stream.
C12_RoutingTagNewlineFlush ==
    \A t \in Threads :
        /\ \A s \in Streams : \A i \in 1..Len(stream[s]) :
              stream[s][i].thr = t =>
                 /\ s = RoutedStream(emit[t])
                 /\ stream[s][i].lvl = emit[t]
        /\ (pc[t] \in {"log_format", "log_endl", "log_unlock", "log_exit"}) =>
              IsTagOf(text[t][1], emit[t])
        /\ (pc[t] \in {"log_unlock", "log_exit"}) =>
              /\ logMutex_ = t
              /\ Len(lines[t]) = 1
              /\ lines[t][1].stream = RoutedStream(emit[t])
              /\ Len(text[t]) = 3
              /\ text[t][3] = "\n"
              /\ NothingPending(t)

C12_Witness ==
    \E t, u \in Threads :
        /\ pc[t] = "log_unlock" /\ emit[t] = INFO
        /\ logMutex_ = t
        /\ lines[t][1].stream = "cout"
        /\ text[t][1] = "[INFO]     "
        /\ text[t][3] = "\n"
        /\ pc[u] = "ret" /\ call[u].lvl = LERROR
        /\ Len(lines[u]) = 1 /\ lines[u][1].stream = "cerr"
        /\ text[u][1] = "[ERROR]    "

\* C13, as stated: no thread is at the acquisition of logMutex_ (the guard at
\* the top of a logXXX function) while it owns flagMutex_.
C13_FlagMutexReleasedBeforeLogging ==
    \A t \in Threads :
        pc[t] = "log_lock" => flagMutex_ # t

\* the statements, other than the test of log, that read or write logLevel_,
\* lastLogTime_, elapsedTime_, currentIteration_ or numberIterations_, and
\* those that read or write flagTimes_
EmissionStateAccess == {"log_format", "set_check", "progress_check"}
FlagTableAccess == {"add_find", "flag_store", "release_find"}

\* C14, as stated: a thread that is at a statement reading or writing the
\* threshold, the last log time or the progress counters owns logMutex_, and
\* one at a statement reading or writing the table of flags owns flagMutex_;
\* and the test of log never reads logLevel_ while another thread is at the
\* assignment of setLogLevel that writes it: the two are not both enabled.
C14_SharedStateAccessedUnderItsMutex ==
    /\ \A t \in Threads :
         /\ pc[t] \in EmissionStateAccess => logMutex_ = t
         /\ pc[t] \in FlagTableAccess => flagMutex_ = t
    /\ \A t, u \in Threads :
         ~(/\ pc[t] = "log_test"
           /\ pc[u] = "set_check" /\ ~AboveCeiling(call[u].lvl))

\* C15, as stated: a thread that is writing a message line, or has written one
\* and still owns logMutex_ (logLevel_ cannot change meanwhile), writes a line
\* of a severity at or below logLevel_; so with logLevel_ = OFF no thread
\* writes a line.
C15_WrittenLinesAreWithinThreshold ==
    \A t \in Threads :
        (pc[t] \in {"log_format", "log_endl", "log_unlock", "log_exit"} /\ logMutex_ = t)
            => emit[t] <= logLevel_

\* C16, as stated: once a call displayProgressBar(cur, tot) has decided
\* whether to redraw, currentIteration_ = cur and numberIterations_ = tot.
C16_CountersStoredOnEveryCall ==
    \A t \in Threads :
        ProgressDecided(t) =>
            /\ currentIteration_ = call[t].cur
            /\ numberIterations_ = call[t].tot

\* C16, amended: once a call displayProgressBar(cur, tot) has decided,
\* numberIterations_ = tot; currentIteration_ = cur if the call redraws, and
\* is still the currentIteration of the last redraw if it does not.  So in a
\* run that follows a finished run of the same tot (the counters hold
\* tot - 1 of tot), no call redraws before the one with cur = tot - 1.
C16_CountersStoredOnRedrawOnly ==
    \A t \in Threads :
        ProgressDecided(t) =>
            /\ numberIterations_ = call[t].tot
            /\ currentIteration_ = IF Redraws(t) THEN call[t].cur ELSE oldProgress[t].cur
            /\ (/\ oldProgress[t].tot = call[t].tot
                /\ oldProgress[t].cur = call[t].tot - 1
                /\ call[t].cur < call[t].tot - 1) => ~Redraws(t)

C16_Witness ==
    \E t \in Threads :
        /\ ProgressDecided(t) /\ pc[t] = "ret"
        /\ ~Redraws(t)
        /\ call[t].tot = 100 /\ call[t].cur = 50
        /\ oldProgress[t] = [cur |-> 99, tot |-> 100, prev |-> 100]
        /\ currentIteration_ = 99 /\ numberIterations_ = 100

\* the progress line with `filled` cells out of 50 filled and the percentage
\* `percent`, as the specification describes it
BarLine(filled, percent) ==
    <<"           [" \o Repeat("=", filled) \o Repeat(" ", 50 - filled) \o "] ",
      ToString(percent) \o "%\r">>

\* C17, as stated: a call displayProgressBar(cur, tot), tot > 1 and
\* 0 <= cur <= tot - 1, that has redrawn has written the bar of 50 cells with
\* floor(50 * cur / (tot - 1)) of them filled, then the percentage
\* floor(100 * cur / (tot - 1)) and "%\r", and no newline; for cur = tot - 1
\* that is 50 filled cells and 100%.
C17_BarShowsTheExactFloors ==
    \A t \in Threads :
        (call[t].fn = "displayProgressBar" /\ lines[t] # <<>>) =>
            LET cur == call[t].cur
                tot == call[t].tot
            IN /\ lines[t] = <<WholeBar(t)>>
               /\ text[t] = BarLine((50 * cur) \div (tot - 1), FloorPercent(cur, tot))
               /\ cur = tot - 1 => text[t] = BarLine(50, 100)

\* the steps of formatMessage
FormatStep(t) == pc[t] = "log_format" /\ pc'[t] = "log_endl"

\* C18: lastLogTime_ never decreases and never exceeds the clock.  It changes
\* in formatMessage only: the thread owns logMutex_, reads the clock, sets
\* elapsedTime_ to the milliseconds between that reading and lastLogTime_
\* (which is the reading of the previous formatMessage of any thread, or
\* that of the constructor), a value >= 0 that it prints in the message, and
\* then sets lastLogTime_ to the reading.
C18_LastLogTimeIsTheLastMessageTime ==
    [][/\ lastLogTime_' >= lastLogTime_
       /\ lastLogTime_' <= clock'
       /\ (\A t \in Threads : ~FormatStep(t)) =>
             (lastLogTime_' = lastLogTime_ /\ elapsedTime_' = elapsedTime_)
       /\ \A t \in Threads :
             FormatStep(t) =>
                /\ logMutex_ = t /\ logMutex_' = t
                /\ lastLogTime_' = clock
                /\ elapsedTime_' = (clock - lastLogTime_) \div TicksPerMs
                /\ elapsedTime_' >= 0
                /\ text'[t][2] = CTime(clock) \o ElapsedTimeString(elapsedTime_')
                                    \o FoldInsert("", ArgsOf(t))
      ]_vars

\* a message written less than a millisecond after the previous message,
\* which another thread wrote after the construction
C18_Witness ==
    \E t \in Threads :
        /\ pc[t] = "log_endl"
        /\ lastLogTime_ = MaxTime
        /\ MaxTime >= TicksPerMs
        /\ elapsedTime_ = 0
        /\ \E u \in Threads \ {t} : pc[u] = "ret" /\ Len(text[u]) = 3

\* the text of the arguments args[i..Len(args)], one after the other
RECURSIVE TextFrom(_, _)
TextFrom(args, i) ==
    IF i > Len(args)
    THEN ""
    ELSE (IF args[i].kind = "string" THEN args[i].str ELSE ToString(args[i].num))
             \o TextFrom(args, i + 1)

\* the call of thread t to log or logXXX has written its message
MessageWritten(t) ==
    /\ call[t].fn \in {"log", "logXXX"}
    /\ pc[t] \in {"log_endl", "log_unlock", "log_exit", "ret", "exited"}
    /\ text[t] # <<>>

\* C19: the line a call of log or logXXX writes is the tag of the level, then
\* one string made of the time stamp, the elapsed time " +S.mmm000\b\b\b s "
\* and the body, then the newline; the body is the text of the arguments of
\* the call, each exactly once, in their order, with nothing between them.
C19_BodyIsTheArgumentsInOrder ==
    \A t \in Threads :
        MessageWritten(t) =>
            /\ text[t][1] = TagOf(IF call[t].fn = "log" THEN Dispatch(call[t].lvl)
                                   ELSE call[t].lvl)
            /\ \E now \in 0..MaxTime : \E ms \in 0..MaxTime :
                  text[t][2] = CTime(now) \o ElapsedTimeString(ms)
                                  \o TextFrom(call[t].args, 1)
            /\ Len(text[t]) = 3 => text[t][3] = "\n"
            /\ Len(text[t]) <= 3

C19_Witness ==
    \E t, u \in Threads :
        /\ MessageWritten(t) /\ pc[t] = "ret"
        /\ call[t].args = <<StrArg("n = "), IntArg(12), DoubleArg(3)>>
        /\ text[t] = <<"[INFO]     ", "date(0s) +0.000000\\b\\b\\b s n = 123", "\n">>
        /\ MessageWritten(u) /\ pc[u] = "log_endl"
        /\ call[u].args = <<StrArg("b"), StrArg("a")>>
        /\ text[u] = <<"[WARNING]  ", "date(0s) +0.001000\\b\\b\\b s ba">>

\* thread t takes the step of log's test
TestStep(t) == call[t].fn = "log" /\ pc[t] = "log_test" /\ pc'[t] # "log_test"

\* C20: a call log(S, ...) with S above logLevel_ at its test, or with
\* S = OFF, returns from the test: it does not go on to lock logMutex_, it
\* writes nothing, and the step leaves logLevel_, lastLogTime_,
\* elapsedTime_, the progress counters, the flags, both mutexes and the
\* streams as they are; lastLogTime_ is still the time of the last message
\* written.  Any other call goes on to the logXXX function of S.
C20_SuppressedLogChangesNothing ==
    [][\A t \in Threads :
          TestStep(t) =>
             IF call[t].lvl > logLevel_ \/ call[t].lvl = OFF
             THEN /\ pc'[t] = "ret"
                  /\ lines'[t] = <<>> /\ text'[t] = <<>>
                  /\ NothingPending(t)'
                  /\ logMutex_' = logMutex_ /\ logMutex_ # t
                  /\ UNCHANGED <<logLevel_, lastLogTime_, elapsedTime_, currentIteration_,
                                 numberIterations_, flagTimes_, flagMutex_, stream, exited>>
             ELSE pc'[t] = "log_lock" /\ emit'[t] = call[t].lvl
      ]_vars

\* a message was written, the clock has advanced since, and two suppressed
\* calls are over: log(TRACE) at threshold INFO and log(OFF)
C20_Witness ==
    \E t, u \in Threads :
        /\ call[t].fn = "log" /\ pc[t] = "ret"
        /\ call[t].lvl = TRACE /\ gate[t] = INFO /\ lines[t] = <<>>
        /\ call[u].fn = "log" /\ pc[u] = "ret"
        /\ call[u].lvl = OFF /\ gate[u] = INFO /\ lines[u] = <<>>
        /\ lastLogTime_ > 0
        /\ clock > lastLogTime_
        /\ logMutex_ = NoThread

\* thread t is at the guard of flagMutex_ (acquiring it, or waiting for it)
AcquiringFlagMutex(t) == pc[t] = "flag_lock"

\* thread t is at the guard of logMutex_ (acquiring it, or waiting for it)
AcquiringLogMutex(t) ==
    pc[t] \in {"log_lock", "set_lock", "progress_lock", "deadlocked"}

\* C21: a thread that is acquiring flagMutex_ does not own logMutex_; a
\* thread owns logMutex_ only inside a logXXX function, setLogLevel or
\* displayProgressBar, none of which has a statement that touches
\* flagMutex_.  So two threads never wait for each other, one owning
\* flagMutex_ and waiting for logMutex_, the other owning logMutex_ and
\* waiting for flagMutex_.
C21_LogMutexOwnerNeverAcquiresFlagMutex ==
    /\ \A t \in Threads :
         /\ AcquiringFlagMutex(t) => logMutex_ # t
         /\ logMutex_ = t =>
               pc[t] \in {"log_tag", "log_format", "log_endl", "log_exit", "log_unlock",
                          "exited", "set_check", "set_unlock", "log_lock", "deadlocked",
                          "progress_check", "progress_bar", "progress_percent",
                          "progress_unlock"}
    /\ \A t, u \in Threads :
         ~(/\ flagMutex_ = t /\ AcquiringLogMutex(t) /\ logMutex_ = u
           /\ AcquiringFlagMutex(u))

\* a thread owning flagMutex_ waits for logMutex_, which the other thread
\* owns while it writes a line of log: the wait is one way
C21_Witness ==
    \E t, u \in Threads :
        /\ t # u
        /\ flagMutex_ = t /\ pc[t] = "log_lock"
        /\ logMutex_ = u /\ pc[u] = "log_format"
        /\ call[u].fn = "log"

\* thread t has written and flushed a CRITICAL line, and has not returned
CriticalWritten(t) ==
    /\ emit[t] = CRITICAL
    /\ pc[t] \in {"log_exit", "exited"}

\* the statements at which a thread writes to a stream
WritingStatements ==
    {"log_tag", "log_format", "log_endl", "progress_bar", "progress_percent"}

\* C22: from the moment a thread has written a CRITICAL line, in every step
\* until the process has ended (before exit is called, and while exit runs
\* and the other threads are still running), that thread owns logMutex_, no
\* thread writes anything to any stream or comes to a statement that writes,
\* and no other thread has written a CRITICAL line: the CRITICAL line, the
\* one line of that call, is the last of the output.
C22_CriticalLineIsTheLast ==
    [][\A t \in Threads :
          CriticalWritten(t) =>
             /\ logMutex_ = t /\ logMutex_' = t
             /\ lines[t] = <<WholeLine(t, CRITICAL)>> /\ lines'[t] = lines[t]
             /\ text[t][1] = "[CRITICAL] " /\ text'[t] = text[t]
             /\ stream = [s \in Streams |-> <<>>] /\ stream' = stream
             /\ \A u \in Threads \ {t} :
                   /\ Len(lines'[u]) <= Len(lines[u])
                   /\ Len(text'[u]) <= Len(text[u])
                   /\ pc'[u] \notin WritingStatements
                   /\ ~CriticalWritten(u)'
      ]_vars

\* exit has been called and the process has not ended yet; the other thread
\* has called displayProgressBar and waits for logMutex_, which the thread
\* that wrote the CRITICAL line owns
C22_Witness ==
    \E t, u \in Threads :
        /\ pc[t] = "exited" /\ exited /\ ~terminated
        /\ lines[t] = <<WholeLine(t, CRITICAL)>>
        /\ logMutex_ = t
        /\ call[u].fn = "displayProgressBar" /\ pc[u] = "progress_lock"
        /\ lines[u] = <<>>

\* no thread is in a call, and displayProgressBar and addFlag have not been
\* called yet (setLogLevel is not called at all where C23 is stated)
NothingCalledYet ==
    /\ \A t \in Threads : pc[t] = "idle"
    /\ previousTotal = 0
    /\ \A n \in FlagNames : lastAddFlag[n] = NoTime

\* C23: a Logger on which nothing has been called has logLevel_ equal to the
\* argument of its constructor, currentIteration_ = 0, numberIterations_ = 1
\* and an empty flagTimes_; and the first call displayProgressBar(cur, tot),
\* tot > 1, finds the counters (0, 1) and redraws, for every cur: it does not
\* take the early return.
C23_FreshLoggerAndFirstProgressCall ==
    /\ NothingCalledYet =>
          /\ logLevel_ = constructorLogLevel
          /\ currentIteration_ = 0 /\ numberIterations_ = 1
          /\ DOMAIN flagTimes_ = {}
          /\ logMutex_ = NoThread /\ flagMutex_ = NoThread
    /\ \A t \in Threads :
          /\ (pc[t] = "progress_check" /\ previousTotal = 0) =>
                (currentIteration_ = 0 /\ numberIterations_ = 1)
          /\ (ProgressDecided(t) /\ oldProgress[t].prev = 0) =>
                /\ oldProgress[t].cur = 0 /\ oldProgress[t].tot = 1
                /\ call[t].tot > 1
                /\ Redraws(t)
                /\ pc[t] = "ret" => lines[t] = <<WholeBar(t)>>

\* the first call is displayProgressBar(50, MaxTotal): it has redrawn
C23_Witness ==
    \E t \in Threads :
        /\ ProgressDecided(t) /\ pc[t] = "ret"
        /\ oldProgress[t] = [cur |-> 0, tot |-> 1, prev |-> 0]
        /\ call[t].cur = 50 /\ call[t].tot = MaxTotal
        /\ lines[t] = <<WholeBar(t)>>
        /\ currentIteration_ = 50 /\ numberIterations_ = MaxTotal
====
